---------------------------- MODULE Spec2Model ----------------------------
(***************************************************************************)
(* A model of mini_container (src/mini_container.cpp): the agent (parent)  *)
(* and the container (child) created by the raw clone syscall, the pipe    *)
(* they use as a handshake, the cgroup directory of the child, the host    *)
(* and container network plumbing, the filesystem pivot and the UTS        *)
(* identity.  Every system call whose result the code examines has the two *)
(* outcomes "ok" and "fail"; calls whose result the code ignores have the  *)
(* same outcomes and the code carries on after either.                     *)
(***************************************************************************)
EXTENDS Integers, Sequences

(***************************************************************************)
(* Bounds of the model.                                                    *)
(***************************************************************************)
\* How many times the handshake read may be interrupted by a signal.
MaxEintr == 2

\* How many of the isolation and limit options (--rootfs, --pid, --hostname,
\* --domain, --ipc, --ip, --max-ram) one command line of a launch carries.
MaxOptions == 2

(***************************************************************************)
(* Machine integers.  A value is a little-endian sequence of 16-bit limbs: *)
(* long long has 4 limbs, int has 2, both in two's complement.             *)
(***************************************************************************)
LimbBase == 256 * 256

LongLongLimbs == 2 + 2

IntLimbs == 1 + 1

\* x * k + carry, exact: one limb longer than x.
RECURSIVE MulLimbs(_, _, _)
MulLimbs(x, k, carry) ==
  IF x = <<>> THEN <<carry>>
  ELSE LET t == Head(x) * k + carry
       IN  <<t % LimbBase>> \o MulLimbs(Tail(x), k, t \div LimbBase)

\* x \div k and x % k for a small k, by long division from the top limb.
RECURSIVE DivLimbs(_, _)
DivLimbs(x, k) ==
  IF x = <<>> THEN [q |-> <<>>, r |-> 0]
  ELSE LET rest == DivLimbs(Tail(x), k)
           cur  == rest.r * LimbBase + Head(x)
       IN  [q |-> <<cur \div k>> \o rest.q, r |-> cur % k]

ZeroLimbs(n) == [i \in 1..n |-> 0]

IsZero(x) == \A i \in 1..Len(x) : x[i] = 0

\* The sign bit of a two's complement value.
IsNegative(x) == x[Len(x)] >= LimbBase \div 2

\* Whether an exact non-negative value exceeds the n-limb signed range.
Overflows(x, n) ==
  \/ \E i \in (n + 1)..Len(x) : x[i] # 0
  \/ (Len(x) >= n /\ x[n] >= LimbBase \div 2)

\* The low n limbs (the value modulo 2^(16 n)), zero-extended when shorter.
LowLimbs(x, n) == [i \in 1..n |-> IF i <= Len(x) THEN x[i] ELSE 0]

\* Two's complement negation within Len(x) limbs.
Negate(x) ==
  LowLimbs(MulLimbs([i \in 1..Len(x) |-> LimbBase - 1 - x[i]], 1, 1), Len(x))

(***************************************************************************)
(* Decimal text.  A string of digits is a sequence of one-character        *)
(* strings, optionally led by "-".                                         *)
(***************************************************************************)
DigitChars == <<"0", "1", "2", "3", "4", "5", "6", "7", "8", "9">>

DigitValue(c) == (CHOOSE i \in 1..10 : DigitChars[i] = c) - 1

\* The exact value of an unsigned digit string, as limbs.
RECURSIVE DecimalValue(_, _)
DecimalValue(digits, acc) ==
  IF digits = <<>> THEN acc
  ELSE DecimalValue(Tail(digits), MulLimbs(acc, 10, DigitValue(Head(digits))))

\* The digits of an exact non-negative value, most significant first.
RECURSIVE UnsignedDigits(_)
UnsignedDigits(x) ==
  LET d == DivLimbs(x, 10)
  IN  IF IsZero(d.q) THEN <<DigitChars[d.r + 1]>>
      ELSE UnsignedDigits(d.q) \o <<DigitChars[d.r + 1]>>

\* std::to_string of a two's complement value.
to_string(x) ==
  IF IsNegative(x) THEN <<"-">> \o UnsignedDigits(Negate(x))
  ELSE UnsignedDigits(x)

\* po::value<long long>: the text of --max-ram as a 64-bit value.  The text
\* is within the range of long long for every argument of the model.
ParseLongLong(text) ==
  IF text = <<>> THEN ZeroLimbs(LongLongLimbs)
  ELSE IF Head(text) = "-"
       THEN Negate(LowLimbs(DecimalValue(Tail(text), <<>>), LongLongLimbs))
       ELSE LowLimbs(DecimalValue(text, <<>>), LongLongLimbs)

(***************************************************************************)
(* The command line.  Each option is drawn from a small set; an empty      *)
(* string is an option that was not given.                                 *)
(***************************************************************************)
RootfsArgs == {"", "/var/lib/mc/alpine"}

HostnameArgs == {"", "demo"}

DomainArgs == {"", "d.local"}

IpArgs == {"", "10.0.0.2"}

CmdArgs == {"", "/bin/true", "/no/such/file"}

\* The text given to --max-ram: absent, 0, 100 MiB, INT_MAX, above INT_MAX,
\* and a value whose product with 75 leaves the range of long long.
MaxRamArgs ==
  { <<>>,
    <<"0">>,
    <<"1", "0", "4", "8", "5", "7", "6", "0", "0">>,
    <<"2", "1", "4", "7", "4", "8", "3", "6", "4", "7">>,
    <<"3", "0", "0", "0", "0", "0", "0", "0", "0", "0">>,
    <<"2", "0", "0", "0", "0", "0", "0", "0", "0", "0", "0", "0", "0", "0",
      "0", "0", "0", "0">> }

\* The names the kernel has before the launch.
HostHostname == "host"

HostDomain == "(none)"

\* The outcomes of a system call or of a command run by system().
Outcomes == {"ok", "fail"}

\* Exit statuses: exit(EXIT_FAILURE), a return of -1 from main, death by
\* SIGPIPE, and the statuses a user command may end with.
EXIT_FAILURE == "1"

UserStatuses == {"0", "3"}

\* What po::notify stores in limit.maxRamBytes for each text of --max-ram.
ParsedLimit == [t \in MaxRamArgs |-> ParseLongLong(t)]

Argv ==
  [ parseError : BOOLEAN, help : BOOLEAN, verbose : BOOLEAN,
    rootfs : RootfsArgs, enablePid : BOOLEAN, hostname : HostnameArgs,
    domain : DomainArgs, enableIpc : BOOLEAN, ip : IpArgs,
    maxRam : MaxRamArgs, cmd : CmdArgs ]

VARIABLES
  argv,        \* the command line of this run
  limit,       \* ResourceLimit.maxRamBytes after po::notify
  flags,       \* the flags handed to clone
  pipe,        \* the pipe: bytes in flight and the holders of each end
  apc,         \* where the agent is
  astep,       \* the step within prepareNetwork
  success,     \* main's success: what setupCgroup returned
  status,      \* main's status: what waitpid stored
  agentStatus, \* how the agent ended: its exit status ("none" while it runs)
               \* and the message it gave errExit
  cpc,         \* where the container is
  cstep,       \* the step within setupNetwork / setupFilesystem
  eintr,       \* how often the read in progress was interrupted
  childStatus, \* how the container ended, likewise
  reaped,      \* waitpid has returned for the container
  cgroup,      \* the directory {kCgroupRoot}/{cpid}, its files, and the calls
               \* of setupCgroup that failed
  hostNet,     \* the results of the commands prepareNetwork has run, in order
  childNet,    \* the container-side network commands that succeeded
  mounts,      \* mount namespaces created for the container, pivot steps done
  uts,         \* hostname and NIS domain of the host and of the container
  execvCall    \* execv in the container: "none" (not called), "failed" or "ok"

vars ==
  << argv, limit, flags, pipe, apc, astep, success, status, agentStatus,
     cpc, cstep, eintr,
     childStatus, reaped, cgroup, hostNet, childNet, mounts, uts, execvCall >>

\* The options as main names them.
verbose == argv.verbose

rootfs == argv.rootfs

hostname == argv.hostname

domain == argv.domain

ip == argv.ip

enablePid == argv.enablePid

enableIpc == argv.enableIpc

cmd == argv.cmd

(***************************************************************************)
(* The state before main runs.                                             *)
(***************************************************************************)
\* How a process ended: its exit status and the message it gave errExit.
Running == [code |-> "none", msg |-> ""]

Ended(code, msg) == [code |-> code, msg |-> msg]

DefaultArgv ==
  [ parseError |-> FALSE, help |-> FALSE, verbose |-> FALSE, rootfs |-> "",
    enablePid |-> FALSE, hostname |-> "", domain |-> "", enableIpc |-> FALSE,
    ip |-> "", maxRam |-> <<>>, cmd |-> "" ]

\* The number of isolation and limit options a command line carries.
OptionCount(a) ==
  (IF a.rootfs # "" THEN 1 ELSE 0) + (IF a.enablePid THEN 1 ELSE 0)
    + (IF a.hostname # "" THEN 1 ELSE 0) + (IF a.domain # "" THEN 1 ELSE 0)
    + (IF a.enableIpc THEN 1 ELSE 0) + (IF a.ip # "" THEN 1 ELSE 0)
    + (IF a.maxRam # <<>> THEN 1 ELSE 0)

\* The state before main runs on command line a: one the parser rejects,
\* one asking for help, or a full one.
Start(a) ==
  /\ argv = a
  /\ a.parseError => a = [DefaultArgv EXCEPT !.parseError = TRUE]
  /\ a.help => a = [DefaultArgv EXCEPT !.help = TRUE]
  /\ limit = ZeroLimbs(LongLongLimbs)
  /\ flags = {}
  /\ pipe = [buf |-> <<>>, w |-> {}, r |-> {}]
  /\ apc = "parse"
  /\ astep = 0
  /\ success = FALSE
  /\ status = "unset"
  /\ agentStatus = Running
  /\ cpc = "none"
  /\ cstep = 0
  /\ eintr = 0
  /\ childStatus = Running
  /\ reaped = FALSE
  /\ cgroup \in { [dir |-> d, procs |-> FALSE, low |-> <<>>, max |-> <<>>,
                     faults |-> {}] : d \in {"absent", "stale"} }
  /\ hostNet = <<>>
  /\ childNet = <<>>
  /\ mounts = [ns |-> 0, ops |-> <<>>]
  /\ uts = [host |-> [hostname |-> HostHostname, domain |-> HostDomain],
            container |-> [hostname |-> HostHostname, domain |-> HostDomain]]
  /\ execvCall = "none"

Init == \E a \in Argv : OptionCount(a) <= MaxOptions /\ Start(a)

(***************************************************************************)
(* Process exit: the kernel closes every descriptor the process holds.     *)
(***************************************************************************)
ReleaseEnds(p, who) == [p EXCEPT !.w = @ \ {who}, !.r = @ \ {who}]

\* The agent leaves main with this status (return, exit() or a signal).
AgentEnds(st) ==
  /\ agentStatus' = st
  /\ apc' = "done"
  /\ pipe' = ReleaseEnds(pipe, "agent")

\* errExit(msg) in the agent: perror(msg), then exit(EXIT_FAILURE).
AgentErrExit(msg) == AgentEnds(Ended(EXIT_FAILURE, msg))

\* errExit(msg) in the container.
ChildErrExit(msg) ==
  /\ childStatus' = Ended(EXIT_FAILURE, msg)
  /\ cpc' = "Aborted"
  /\ pipe' = ReleaseEnds(pipe, "child")

(***************************************************************************)
(* main: the command line.                                                 *)
(***************************************************************************)
ParseArgs ==
  /\ apc = "parse"
  /\ IF argv.parseError
     THEN /\ AgentEnds(Ended("255", ""))
          /\ UNCHANGED limit
     ELSE /\ limit' = ParsedLimit[argv.maxRam]
          /\ IF argv.help \/ cmd = ""
             THEN AgentEnds(Ended("0", ""))
             ELSE /\ apc' = "flags"
                  /\ UNCHANGED <<agentStatus, pipe>>
  /\ UNCHANGED << argv, flags, astep, success, status, cpc, cstep, eintr,
                  childStatus, reaped, cgroup, hostNet, childNet, mounts, uts,
                  execvCall >>

\* A derivation that forgets that --domain alone asks for a UTS namespace.
CloneFlagsHostnameOnly(a) ==
  {"SIGCHLD"}
    \cup (IF a.rootfs # "" THEN {"CLONE_NEWNS"} ELSE {})
    \cup (IF a.enablePid THEN {"CLONE_NEWPID"} ELSE {})
    \cup (IF a.hostname # "" THEN {"CLONE_NEWUTS"} ELSE {})
    \cup (IF a.enableIpc THEN {"CLONE_NEWIPC"} ELSE {})
    \cup (IF a.ip # "" THEN {"CLONE_NEWNET"} ELSE {})

\* A derivation that never asks for a UTS namespace.
CloneFlagsWithoutUts(a) ==
  {"SIGCHLD"}
    \cup (IF a.rootfs # "" THEN {"CLONE_NEWNS"} ELSE {})
    \cup (IF a.enablePid THEN {"CLONE_NEWPID"} ELSE {})
    \cup (IF a.enableIpc THEN {"CLONE_NEWIPC"} ELSE {})
    \cup (IF a.ip # "" THEN {"CLONE_NEWNET"} ELSE {})

\* The clone flags of a command line.
CloneFlags(a) ==
  {"SIGCHLD"}
    \cup (IF a.rootfs # "" THEN {"CLONE_NEWNS"} ELSE {})
    \cup (IF a.enablePid THEN {"CLONE_NEWPID"} ELSE {})
    \cup (IF a.hostname # "" \/ a.domain # "" THEN {"CLONE_NEWUTS"} ELSE {})
    \cup (IF a.enableIpc THEN {"CLONE_NEWIPC"} ELSE {})
    \cup (IF a.ip # "" THEN {"CLONE_NEWNET"} ELSE {})

ComputeFlags ==
  /\ apc = "flags"
  /\ flags' = CloneFlags(argv)
  /\ apc' = "pipe"
  /\ UNCHANGED << argv, limit, pipe, astep, success, status, agentStatus, cpc,
                  cstep, eintr, childStatus, reaped, cgroup, hostNet, childNet,
                  mounts, uts, execvCall >>

\* pipe(pipefd)
CreatePipe ==
  /\ apc = "pipe"
  /\ \E o \in Outcomes :
       IF o = "ok"
       THEN /\ pipe' = [buf |-> <<>>, w |-> {"agent"}, r |-> {"agent"}]
            /\ apc' = "clone"
            /\ UNCHANGED agentStatus
       ELSE AgentErrExit("pipe failed")
  /\ UNCHANGED << argv, limit, flags, astep, success, status, cpc, cstep,
                  eintr, childStatus, reaped, cgroup, hostNet, childNet,
                  mounts, uts, execvCall >>

\* What getHostname() and getNisDomainName() give errExit.
InfoErrors == {"gethostname", "getdomainname"}

\* Where the agent goes after the verbose block.
AfterInfo == IF ip # "" THEN "prepareNetwork" ELSE "mkdir"

\* syscall(SYS_clone, flags, ...): the container starts with a copy of every
\* descriptor and, per flag, a namespace of its own.
Clone ==
  /\ apc = "clone"
  /\ \E o \in Outcomes :
       IF o = "ok"
       THEN /\ cpc' = "closeWrite"
            /\ pipe' = [pipe EXCEPT !.w = @ \cup {"child"},
                                    !.r = @ \cup {"child"}]
            /\ mounts' = [mounts EXCEPT
                 !.ns = IF "CLONE_NEWNS" \in flags THEN 1 ELSE 0]
            /\ apc' = IF verbose THEN "info" ELSE AfterInfo
            /\ astep' = 1
            /\ UNCHANGED agentStatus
       ELSE /\ AgentErrExit("fork failed")
            /\ UNCHANGED <<cpc, mounts, astep>>
  /\ UNCHANGED << argv, limit, flags, success, status, cstep, eintr,
                  childStatus, reaped, cgroup, hostNet, childNet, uts, execvCall >>

\* The verbose block of the agent: getHostname() and getNisDomainName()
\* call errExit when the system call fails.
AgentInfo ==
  /\ apc = "info"
  /\ \E o \in {"ok"} \cup InfoErrors :
       IF o = "ok"
       THEN /\ apc' = AfterInfo
            /\ UNCHANGED <<agentStatus, pipe>>
       ELSE AgentErrExit(o)
  /\ UNCHANGED << argv, limit, flags, astep, success, status, cpc, cstep,
                  eintr, childStatus, reaped, cgroup, hostNet, childNet,
                  mounts, uts, execvCall >>

(***************************************************************************)
(* prepareNetwork: eight commands run by system(), in this order.          *)
(***************************************************************************)
HostNetCmds ==
  << "ip link add name br0 type bridge",
     "ip link set br0 up",
     "ip addr add 10.0.0.1/16 brd + dev br0",
     "ip link add veth<pid> type veth peer name eth0 netns <pid>",
     "ip link set veth<pid> up",
     "ip link set veth<pid> master br0",
     "sysctl -w net.ipv4.ip_forward=1",
     "iptables -t nat -A POSTROUTING -s 10.0.0.1/16 -j MASQUERADE" >>

\* What errExit is given when a command fails; steps 1 and 3 have no test.
HostNetErrors ==
  << "", "setting default bridge up failed", "",
     "adding veth pair failed", "setting veth up failed",
     "adding veth to bridge failed", "enabling net.ipv4.ip_forward failed",
     "enabling NAT failed" >>

\* A prepareNetwork that examines the result of every command.
MustSucceedEveryCommand(i) == TRUE

\* The commands whose result prepareNetwork examines.
MustSucceed(i) == i \notin {1, 3}

PrepareNetworkStep ==
  /\ apc = "prepareNetwork"
  /\ \E o \in Outcomes :
       /\ hostNet' = Append(hostNet, o)
       /\ IF o = "fail" /\ MustSucceed(astep)
          THEN /\ AgentErrExit(HostNetErrors[astep])
               /\ UNCHANGED astep
          ELSE /\ IF astep = Len(HostNetCmds)
                  THEN apc' = "mkdir" /\ UNCHANGED astep
                  ELSE astep' = astep + 1 /\ UNCHANGED apc
               /\ UNCHANGED <<agentStatus, pipe>>
  /\ UNCHANGED << argv, limit, flags, success, status, cpc, cstep, eintr,
                  childStatus, reaped, cgroup, childNet, mounts, uts,
                  execvCall >>

(***************************************************************************)
(* writeToFile: "openfail" is a stream that did not open; "writefail" is a *)
(* stream that opened and whose write the kernel rejected, which the       *)
(* function does not look at; "ok" stores the data.                        *)
(***************************************************************************)
FileOutcomes == {"openfail", "writefail", "ok"}

\* What writeToFile returns.
writeToFile(o) == o # "openfail"

\* What the file holds afterwards.
FileAfter(old, data, o) == IF o = "ok" THEN data ELSE old

\* The file this call failed on, if it failed.
Fault(file, o) == IF o = "ok" THEN {} ELSE {file}

(***************************************************************************)
(* setupCgroup                                                             *)
(***************************************************************************)
\* limit.maxRamBytes > 0
IsPositive(x) == ~IsNegative(x) /\ ~IsZero(x)

\* long long / 100, truncating toward zero.
SignedDiv100(x) ==
  IF IsNegative(x) THEN Negate(DivLimbs(Negate(x), 100).q)
  ELSE DivLimbs(x, 100).q

\* int memoryLow = limit.maxRamBytes * 75 / 100: the product is a long long;
\* when it overflows the behaviour is undefined, and the build may wrap it
\* or may compute the quotient exactly.  The quotient is then cut to an int.
MemoryLowValues(n) ==
  LET exact == MulLimbs(n, 75, 0)
      right == LowLimbs(DivLimbs(exact, 100).q, IntLimbs)
  IN  IF Overflows(exact, LongLongLimbs)
      THEN { right,
             LowLimbs(SignedDiv100(LowLimbs(exact, LongLongLimbs)), IntLimbs) }
      ELSE { right }

\* int memoryMax = limit.maxRamBytes
MemoryMaxValue(n) == LowLimbs(n, IntLimbs)

\* The limits of the model's command lines, and what setupCgroup hands to
\* writeToFile for each: std::to_string(memoryLow), std::to_string(memoryMax).
\* The tables hold the values of the operators above, computed once.
Limits == { ParseLongLong(t) : t \in MaxRamArgs }

MemoryLowText == [n \in Limits |-> { to_string(v) : v \in MemoryLowValues(n) }]

MemoryMaxText == [n \in Limits |-> to_string(MemoryMaxValue(n))]

\* mkdir(cgroupPath, 0755) fails when the directory is there already.
MkdirOutcomes == IF cgroup.dir = "absent" THEN Outcomes ELSE {"fail"}

\* A setupCgroup that reports success whatever happened.
SetupCgroupReturnsTrue(b) ==
  /\ success' = TRUE
  /\ apc' = "closeRead"

\* setupCgroup returns b: main stores it and goes on to the handshake.
SetupCgroupReturns(b) ==
  /\ success' = b
  /\ apc' = "closeRead"

Mkdir ==
  /\ apc = "mkdir"
  /\ \E o \in MkdirOutcomes :
       IF o = "ok"
       THEN /\ cgroup' = [cgroup EXCEPT !.dir = "created"]
            /\ apc' = IF IsPositive(limit) THEN "memoryLow" ELSE "attach"
            /\ UNCHANGED success
       ELSE /\ SetupCgroupReturns(FALSE)
            /\ cgroup' = [cgroup EXCEPT !.faults = @ \cup {"mkdir"}]
  /\ UNCHANGED << argv, limit, flags, pipe, astep, status, agentStatus, cpc,
                  cstep, eintr, childStatus, reaped, hostNet, childNet, mounts,
                  uts, execvCall >>

WriteMemoryLow ==
  /\ apc = "memoryLow"
  /\ \E o \in FileOutcomes, text \in MemoryLowText[limit] :
       IF writeToFile(o)
       THEN /\ cgroup' = [cgroup EXCEPT
                 !.low = FileAfter(@, text, o),
                 !.faults = @ \cup Fault("memory.low", o)]
            /\ apc' = "memoryMax"
            /\ UNCHANGED success
       ELSE /\ SetupCgroupReturns(FALSE)
            /\ cgroup' = [cgroup EXCEPT !.faults = @ \cup {"memory.low"}]
  /\ UNCHANGED << argv, limit, flags, pipe, astep, status, agentStatus, cpc,
                  cstep, eintr, childStatus, reaped, hostNet, childNet, mounts,
                  uts, execvCall >>

WriteMemoryMax ==
  /\ apc = "memoryMax"
  /\ \E o \in FileOutcomes :
       IF writeToFile(o)
       THEN /\ cgroup' = [cgroup EXCEPT
                 !.max = FileAfter(@, MemoryMaxText[limit], o),
                 !.faults = @ \cup Fault("memory.max", o)]
            /\ apc' = "attach"
            /\ UNCHANGED success
       ELSE /\ SetupCgroupReturns(FALSE)
            /\ cgroup' = [cgroup EXCEPT !.faults = @ \cup {"memory.max"}]
  /\ UNCHANGED << argv, limit, flags, pipe, astep, status, agentStatus, cpc,
                  cstep, eintr, childStatus, reaped, hostNet, childNet, mounts,
                  uts, execvCall >>

\* return writeToFile(cgroupPath + "/cgroup.procs", std::to_string(cpid))
Attach ==
  /\ apc = "attach"
  /\ \E o \in FileOutcomes :
       /\ cgroup' = [cgroup EXCEPT
            !.procs = FileAfter(@, TRUE, o),
            !.faults = @ \cup Fault("cgroup.procs", o)]
       /\ SetupCgroupReturns(writeToFile(o))
  /\ UNCHANGED << argv, limit, flags, pipe, astep, status, agentStatus, cpc,
                  cstep, eintr, childStatus, reaped, hostNet, childNet, mounts,
                  uts, execvCall >>

(***************************************************************************)
(* main, agent branch: the handshake, the reap and the cleanup.            *)
(***************************************************************************)
\* close(readfd)
AgentCloseRead ==
  /\ apc = "closeRead"
  /\ \E o \in Outcomes :
       IF o = "ok"
       THEN /\ pipe' = [pipe EXCEPT !.r = @ \ {"agent"}]
            /\ apc' = "write"
            /\ UNCHANGED agentStatus
       ELSE AgentErrExit("[Agent] close(readfd)")
  /\ UNCHANGED << argv, limit, flags, astep, success, status, cpc, cstep,
                  eintr, childStatus, reaped, cgroup, hostNet, childNet,
                  mounts, uts, execvCall >>

\* write(writefd, &success, sizeof(success)): with no reader left the kernel
\* raises SIGPIPE, which ends the agent.
AgentWrite ==
  /\ apc = "write"
  /\ IF pipe.r = {}
     THEN AgentEnds(Ended("SIGPIPE", ""))
     ELSE \E o \in Outcomes :
            IF o = "ok"
            THEN /\ pipe' = [pipe EXCEPT !.buf = Append(@, success)]
                 /\ apc' = "closeWrite"
                 /\ UNCHANGED agentStatus
            ELSE AgentErrExit("[Agent] write(writefd)")
  /\ UNCHANGED << argv, limit, flags, astep, success, status, cpc, cstep,
                  eintr, childStatus, reaped, cgroup, hostNet, childNet,
                  mounts, uts, execvCall >>

\* close(writefd)
AgentCloseWrite ==
  /\ apc = "closeWrite"
  /\ \E o \in Outcomes :
       IF o = "ok"
       THEN /\ pipe' = [pipe EXCEPT !.w = @ \ {"agent"}]
            /\ apc' = "waitpid"
            /\ UNCHANGED agentStatus
       ELSE AgentErrExit("[Agent] close(writefd)")
  /\ UNCHANGED << argv, limit, flags, astep, success, status, cpc, cstep,
                  eintr, childStatus, reaped, cgroup, hostNet, childNet,
                  mounts, uts, execvCall >>

\* waitpid(cpid, &status, 0) returns once the container has ended.
WaitpidReturns ==
  /\ apc = "waitpid"
  /\ childStatus # Running
  /\ reaped' = TRUE
  /\ status' = childStatus.code
  /\ apc' = "rmdir"
  /\ UNCHANGED << argv, limit, flags, pipe, astep, success, agentStatus, cpc,
                  cstep, eintr, childStatus, cgroup, hostNet, childNet, mounts,
                  uts, execvCall >>

\* waitpid(cpid, &status, 0) == -1
WaitpidFails ==
  /\ apc = "waitpid"
  /\ AgentErrExit("[Agent] waitpid failed")
  /\ UNCHANGED << argv, limit, flags, astep, success, status, cpc, cstep,
                  eintr, childStatus, reaped, cgroup, hostNet, childNet,
                  mounts, uts, execvCall >>

\* rmdir(cgroupPath) fails when there is no such directory.
RmdirOutcomes == IF cgroup.dir = "absent" THEN {"fail"} ELSE Outcomes

\* What main returns at its end.
MainReturn == "0"

\* removeCgroup(getContainerCgroup(cpid)), then return from main.
RemoveCgroup ==
  /\ apc = "rmdir"
  /\ \E o \in RmdirOutcomes :
       IF o = "ok"
       THEN /\ cgroup' = [cgroup EXCEPT !.dir = "absent", !.procs = FALSE,
                                           !.low = <<>>, !.max = <<>>]
            /\ AgentEnds(Ended(MainReturn, ""))
       ELSE /\ AgentErrExit("rmdir(cgroupPath)")
            /\ UNCHANGED cgroup
  /\ UNCHANGED << argv, limit, flags, astep, success, status, cpc, cstep,
                  eintr, childStatus, reaped, hostNet, childNet, mounts, uts,
                  execvCall >>

(***************************************************************************)
(* main, container branch.                                                 *)
(***************************************************************************)
\* Where the container goes next; each phase is entered only when its
\* option was given.
AfterFilesystem ==
  IF hostname # "" THEN "sethostname"
  ELSE IF domain # "" THEN "setdomainname" ELSE "runContainer"

\* A setupFilesystem without the early return for an empty rootfs.
AfterNetworkAlwaysPivots == "setupFilesystem"

AfterNetwork == IF rootfs # "" THEN "setupFilesystem" ELSE AfterFilesystem

\* A container branch that calls setupNetwork without the test of --ip.
AfterHandshakeAlwaysPlumbs == "setupNetwork"

AfterHandshake == IF ip # "" THEN "setupNetwork" ELSE AfterNetwork

ChildGoes(next) ==
  /\ cpc' = next
  /\ cstep' = 1

\* A container that keeps its copy of the write end open.
KeepWriteEnd(p) == p

\* waitForAgent: close(pipefd[1])
CloseWriteEnd(p) == [p EXCEPT !.w = @ \ {"child"}]

ChildCloseWrite ==
  /\ cpc = "closeWrite"
  /\ \E o \in Outcomes :
       IF o = "ok"
       THEN /\ pipe' = CloseWriteEnd(pipe)
            /\ ChildGoes("read")
            /\ UNCHANGED childStatus
       ELSE /\ ChildErrExit("[Container] close(pipefd[1])")
            /\ UNCHANGED cstep
  /\ UNCHANGED << argv, limit, flags, apc, astep, success, status,
                  agentStatus, eintr, reaped, cgroup, hostNet, childNet,
                  mounts, uts, execvCall >>

\* read() blocks while the pipe is empty and someone holds its write end.
ReadBlocks == pipe.buf = <<>> /\ pipe.w # {}

\* ret == -1 && errno == EINTR: the loop reads again.
ReadInterrupted ==
  /\ cpc = "read"
  /\ ReadBlocks
  /\ eintr < MaxEintr
  /\ eintr' = eintr + 1
  /\ UNCHANGED << argv, limit, flags, pipe, apc, astep, success, status,
                  agentStatus, cpc, cstep, childStatus, reaped, cgroup,
                  hostNet, childNet, mounts, uts, execvCall >>

\* What read() gives once it does not block: the number of bytes and the
\* byte.  At end of file it gives 0 and leaves `success` as initialized.
ReadResult(p) ==
  IF p.buf # <<>> THEN [ret |-> 1, byte |-> Head(p.buf)]
  ELSE [ret |-> 0, byte |-> FALSE]

\* A test that looks at the count alone and not at the byte.
ReleasedWhateverByte(rd) == rd.ret = 1

\* The test after the loop: ret == sizeof(success) and success.
Released(rd) == rd.ret = 1 /\ rd.byte

ReadReturns ==
  /\ cpc = "read"
  /\ ~ReadBlocks
  /\ IF Released(ReadResult(pipe))
     THEN /\ pipe' = [pipe EXCEPT !.buf = Tail(@)]
          /\ ChildGoes("closeRead")
          /\ UNCHANGED childStatus
     ELSE /\ ChildErrExit("[Container] Preparation failed")
          /\ UNCHANGED cstep
  /\ eintr' = 0
  /\ UNCHANGED << argv, limit, flags, apc, astep, success, status,
                  agentStatus, reaped, cgroup, hostNet, childNet,
                  mounts, uts, execvCall >>

\* ret == -1 with another errno: the loop ends and the test fails.
ReadFails ==
  /\ cpc = "read"
  /\ ChildErrExit("[Container] Preparation failed")
  /\ eintr' = 0
  /\ UNCHANGED << argv, limit, flags, apc, astep, success, status,
                  agentStatus, cstep, reaped, cgroup, hostNet,
                  childNet, mounts, uts, execvCall >>

\* close(pipefd[0])
ChildCloseRead ==
  /\ cpc = "closeRead"
  /\ \E o \in Outcomes :
       IF o = "ok"
       THEN /\ pipe' = [pipe EXCEPT !.r = @ \ {"child"}]
            /\ ChildGoes(AfterHandshake)
            /\ UNCHANGED childStatus
       ELSE /\ ChildErrExit("[Container] close(pipefd[0])")
            /\ UNCHANGED cstep
  /\ UNCHANGED << argv, limit, flags, apc, astep, success, status,
                  agentStatus, eintr, reaped, cgroup, hostNet, childNet,
                  mounts, uts, execvCall >>

(***************************************************************************)
(* setupNetwork: four commands run by system(), each must succeed.         *)
(***************************************************************************)
ChildNetCmds ==
  << "ip link set dev lo up",
     "ip addr add <ip>/16 dev eth0",
     "ip link set dev eth0 up",
     "ip route add default via 10.0.0.1" >>

ChildNetErrors ==
  << "bring up lo device failed", "adding IP to eth0 failed",
     "bring up eth0 failed", "setting default gateway failed" >>

SetupNetworkStep ==
  /\ cpc = "setupNetwork"
  /\ \E o \in Outcomes :
       IF o = "ok"
       THEN /\ childNet' = Append(childNet, ChildNetCmds[cstep])
            /\ IF cstep = Len(ChildNetCmds)
               THEN ChildGoes(AfterNetwork)
               ELSE cstep' = cstep + 1 /\ UNCHANGED cpc
            /\ UNCHANGED <<childStatus, pipe>>
       ELSE /\ ChildErrExit(ChildNetErrors[cstep])
            /\ UNCHANGED <<childNet, cstep>>
  /\ UNCHANGED << argv, limit, flags, apc, astep, success, status,
                  agentStatus, eintr, reaped, cgroup, hostNet, mounts, uts,
                  execvCall >>

(***************************************************************************)
(* setupFilesystem: nine system calls, each must succeed.                  *)
(***************************************************************************)
\* A setupFilesystem that changes root before it moves the mount.
PivotOpsChrootFirst ==
  << "unshare(CLONE_NEWNS)",
     "mount(/, MS_SLAVE | MS_REC)",
     "mount(rootfs, rootfs, MS_BIND | MS_REC)",
     "chdir(rootfs)",
     "chroot(.)",
     "mount(rootfs, /, MS_MOVE)",
     "chdir(/)",
     "mount(/, MS_SHARED | MS_REC)",
     "mount(proc, /proc, MS_NOSUID | MS_NOEXEC | MS_NODEV)" >>

PivotOps ==
  << "unshare(CLONE_NEWNS)",
     "mount(/, MS_SLAVE | MS_REC)",
     "mount(rootfs, rootfs, MS_BIND | MS_REC)",
     "chdir(rootfs)",
     "mount(rootfs, /, MS_MOVE)",
     "chroot(.)",
     "chdir(/)",
     "mount(/, MS_SHARED | MS_REC)",
     "mount(proc, /proc, MS_NOSUID | MS_NOEXEC | MS_NODEV)" >>

\* The mount namespaces created for the container after this operation.
NamespacesAfter(n, op) == IF op = "unshare(CLONE_NEWNS)" THEN n + 1 ELSE n

SetupFilesystemStep ==
  /\ cpc = "setupFilesystem"
  /\ \E o \in Outcomes :
       IF o = "ok"
       THEN /\ mounts' = [ns |-> NamespacesAfter(mounts.ns, PivotOps[cstep]),
                          ops |-> Append(mounts.ops, PivotOps[cstep])]
            /\ IF cstep = Len(PivotOps)
               THEN ChildGoes(AfterFilesystem)
               ELSE cstep' = cstep + 1 /\ UNCHANGED cpc
            /\ UNCHANGED <<childStatus, pipe>>
       ELSE /\ ChildErrExit(PivotOps[cstep])
            /\ UNCHANGED <<mounts, cstep>>
  /\ UNCHANGED << argv, limit, flags, apc, astep, success, status,
                  agentStatus, eintr, reaped, cgroup, hostNet, childNet, uts,
                  execvCall >>

(***************************************************************************)
(* setHostAndDomainName: the calls act on the UTS namespace the container  *)
(* is in, which is the host's unless clone was given CLONE_NEWUTS.         *)
(***************************************************************************)
SetName(u, field, name) ==
  IF "CLONE_NEWUTS" \in flags
  THEN [u EXCEPT !.container[field] = name]
  ELSE [u EXCEPT !.container[field] = name, !.host[field] = name]

Sethostname ==
  /\ cpc = "sethostname"
  /\ \E o \in Outcomes :
       IF o = "ok"
       THEN /\ uts' = SetName(uts, "hostname", hostname)
            /\ ChildGoes(IF domain # "" THEN "setdomainname"
                         ELSE "runContainer")
            /\ UNCHANGED <<childStatus, pipe>>
       ELSE /\ ChildErrExit("sethostname")
            /\ UNCHANGED <<uts, cstep>>
  /\ UNCHANGED << argv, limit, flags, apc, astep, success, status,
                  agentStatus, eintr, reaped, cgroup, hostNet, childNet,
                  mounts, execvCall >>

Setdomainname ==
  /\ cpc = "setdomainname"
  /\ \E o \in Outcomes :
       IF o = "ok"
       THEN /\ uts' = SetName(uts, "domain", domain)
            /\ ChildGoes("runContainer")
            /\ UNCHANGED <<childStatus, pipe>>
       ELSE /\ ChildErrExit("setdomainname")
            /\ UNCHANGED <<uts, cstep>>
  /\ UNCHANGED << argv, limit, flags, apc, astep, success, status,
                  agentStatus, eintr, reaped, cgroup, hostNet, childNet,
                  mounts, execvCall >>

(***************************************************************************)
(* runContainer                                                            *)
(***************************************************************************)
\* Whether runContainer reaches its execv: the call stands inside the
\* `if (verbose)` block.
ReachesExecv(v) == v

\* The tokens are built, then the `if (verbose)` block is entered or
\* errExit("execv failed") is called straight away.
RunContainer ==
  /\ cpc = "runContainer"
  /\ IF ReachesExecv(verbose)
     THEN /\ ChildGoes("getnames")
          /\ UNCHANGED <<childStatus, pipe>>
     ELSE /\ ChildErrExit("execv failed")
          /\ UNCHANGED cstep
  /\ UNCHANGED << argv, limit, flags, apc, astep, success, status,
                  agentStatus, eintr, reaped, cgroup, hostNet, childNet,
                  mounts, uts, execvCall >>

\* getHostname() and getNisDomainName() for the verbose lines.
ChildInfo ==
  /\ cpc = "getnames"
  /\ \E o \in {"ok"} \cup InfoErrors :
       IF o = "ok"
       THEN /\ ChildGoes("execv")
            /\ UNCHANGED <<childStatus, pipe>>
       ELSE /\ ChildErrExit(o)
            /\ UNCHANGED cstep
  /\ UNCHANGED << argv, limit, flags, apc, astep, success, status,
                  agentStatus, eintr, reaped, cgroup, hostNet, childNet,
                  mounts, uts, execvCall >>

\* execv(tokens[0], args) cannot succeed on a file that does not exist.
ExecvOutcomes == IF cmd = "/no/such/file" THEN {"fail"} ELSE Outcomes

Execv ==
  /\ cpc = "execv"
  /\ \E o \in ExecvOutcomes :
       IF o = "ok"
       THEN /\ execvCall' = "ok"
            /\ ChildGoes("Executing")
            /\ UNCHANGED <<childStatus, pipe>>
       ELSE /\ ChildErrExit("execv failed")
            /\ execvCall' = "failed"
            /\ UNCHANGED cstep
  /\ UNCHANGED << argv, limit, flags, apc, astep, success, status,
                  agentStatus, eintr, reaped, cgroup, hostNet, childNet,
                  mounts, uts >>

\* The user command runs and ends with a status of its own.
UserCommandExits ==
  /\ cpc = "Executing"
  /\ \E st \in UserStatuses :
       /\ childStatus' = Ended(st, "")
       /\ cpc' = "exited"
       /\ pipe' = ReleaseEnds(pipe, "child")
  /\ UNCHANGED << argv, limit, flags, apc, astep, success, status,
                  agentStatus, cstep, eintr, reaped, cgroup, hostNet,
                  childNet, mounts, uts, execvCall >>

(***************************************************************************)
(* The two processes.  Agent and Container are the calls that return once  *)
(* their process is scheduled; a call cut short by a signal or by an error *)
(* of the kernel (ReadInterrupted, ReadFails, WaitpidFails) and the end of *)
(* the user command are steps that may happen and need not.                *)
(***************************************************************************)
Agent ==
  \/ ParseArgs
  \/ ComputeFlags
  \/ CreatePipe
  \/ Clone
  \/ AgentInfo
  \/ PrepareNetworkStep
  \/ Mkdir
  \/ WriteMemoryLow
  \/ WriteMemoryMax
  \/ Attach
  \/ AgentCloseRead
  \/ AgentWrite
  \/ AgentCloseWrite
  \/ WaitpidReturns
  \/ RemoveCgroup

\* The steps of the container up to its execv.
Container ==
  \/ ChildCloseWrite
  \/ ReadReturns
  \/ ChildCloseRead
  \/ SetupNetworkStep
  \/ SetupFilesystemStep
  \/ Sethostname
  \/ Setdomainname
  \/ RunContainer
  \/ ChildInfo
  \/ Execv

Next ==
  \/ Agent
  \/ Container
  \/ ReadInterrupted
  \/ ReadFails
  \/ WaitpidFails
  \/ UserCommandExits

Spec == Init /\ [][Next]_vars

\* Both processes are scheduled: a call that can return does return.
FairSpec == Spec /\ WF_vars(Agent) /\ WF_vars(Container)

(***************************************************************************)
(* The flag derivation alone, on every command line: the options in every  *)
(* combination, through the parser and the computation of the flags.       *)
(***************************************************************************)
FlagInit == \E a \in Argv : Start(a)

FlagNext ==
  \/ ParseArgs
  \/ ComputeFlags

FlagSpec == FlagInit /\ [][FlagNext]_vars

(***************************************************************************)
(* Vocabulary of the properties.                                           *)
(***************************************************************************)
\* Where the container is once waitForAgent has returned.
PostHandshakePcs ==
  { "setupNetwork", "setupFilesystem", "sethostname", "setdomainname",
    "runContainer", "getnames", "execv", "Executing", "exited" }

\* What a container that ends inside waitForAgent gives errExit.
HandshakeErrors ==
  { "[Container] close(pipefd[1])", "[Container] Preparation failed",
    "[Container] close(pipefd[0])" }

\* The container has left waitForAgent, wherever it is or ended afterwards.
ChildPastHandshake ==
  \/ cpc \in PostHandshakePcs
  \/ (cpc = "Aborted" /\ childStatus.msg \notin HandshakeErrors)

\* A command of prepareNetwork that has to succeed failed.
HostNetFailed ==
  \E i \in 1..Len(hostNet) : hostNet[i] = "fail" /\ MustSucceed(i)

\* prepareNetwork ran all its commands and those that have to succeeded.
PlumbingComplete == Len(hostNet) = Len(HostNetCmds) /\ ~HostNetFailed

\* clone succeeded in this run.
Launched == cpc # "none"

\* main came to its last line and returned.
AgentReturned == apc = "done" /\ agentStatus.code = MainReturn /\ Launched

(***************************************************************************)
(* C1.  A container that was released by the handshake and whose network,  *)
(* pivot and identity steps all succeeded calls execv, with verbose set or *)
(* not: it never gives up in runContainer ("execv failed") without having  *)
(* called execv.                                                           *)
(***************************************************************************)
C1_ExecvCalledWhateverVerbose ==
  (cpc = "Aborted" /\ childStatus.msg = "execv failed") => execvCall # "none"

(***************************************************************************)
(* C2.  Whenever the container is past the handshake and not yet reaped,   *)
(* prepareNetwork has completed (when --ip was given) and the container's  *)
(* PID is in cgroup.procs; and the agent has written a success byte only   *)
(* with the PID in cgroup.procs.                                           *)
(***************************************************************************)
C2_HostSideDoneBeforeRelease ==
  /\ (ChildPastHandshake /\ ~reaped) =>
       /\ (ip # "" => PlumbingComplete)
       /\ cgroup.procs
  /\ (apc = "closeWrite" /\ success) => cgroup.procs

(***************************************************************************)
(* C3.  The agent's exit status follows the container's: when the agent    *)
(* has reaped a container that got past the handshake and ended non-zero   *)
(* (a setup step or execv failed), the agent does not end with 0; it ends  *)
(* such a launch with 0 only if the container ended with 0.                *)
(***************************************************************************)
C3_ExitStatusPropagated ==
  (apc = "done" /\ reaped /\ ChildPastHandshake /\ agentStatus.code = "0")
    => status = "0"

(***************************************************************************)
(* C4.  When host-side setup failed after the clone (a command of          *)
(* prepareNetwork that has to succeed, or mkdir, a limit write or the      *)
(* attach of setupCgroup), the container never gets past the handshake: it *)
(* waits, or has ended inside waitForAgent.                                *)
(***************************************************************************)
C4_NoReleaseAfterHostFailure ==
  (HostNetFailed \/ cgroup.faults # {}) => ~ChildPastHandshake

C6_CgroupLifecycle ==
  /\ [](/\ (apc = "closeWrite" /\ success) => cgroup.dir = "created"
        /\ (ChildPastHandshake /\ ~reaped) => cgroup.dir = "created"
        /\ AgentReturned => cgroup.dir = "absent")
  /\ [][(cgroup.dir # "absent" /\ cgroup'.dir = "absent") => reaped]_vars

\* A launch that ran the user command, reaped it and returned, the
\* directory made and removed again.
C6_Witness ==
  /\ AgentReturned
  /\ execvCall = "ok"
  /\ reaped
  /\ cgroup.dir = "absent"
  /\ cgroup.faults = {}

(***************************************************************************)
(* C7.  With --rootfs the container is put into a new mount namespace      *)
(* exactly once over the launch: clone with CLONE_NEWNS and the first step *)
(* of the pivot do not both create one.                                    *)
(***************************************************************************)
C7_MountNamespaceOnce == mounts.ns <= 1

\* floor(N * 0.75) as decimal text, computed exactly as floor(3 N / 4).
ExpectedMemoryLow ==
  [ t \in MaxRamArgs \ {<<>>} |->
      UnsignedDigits(DivLimbs(MulLimbs(DecimalValue(t, <<>>), 3, 0), 4).q) ]

(***************************************************************************)
(* C8.  For --max-ram N > 0, memory.max holds N and memory.low holds       *)
(* floor(N * 0.75); for N = 0 or no --max-ram neither file is written.     *)
(***************************************************************************)
C8_MemoryLimitMath ==
  IF argv.maxRam \in {<<>>, <<"0">>}
  THEN cgroup.low = <<>> /\ cgroup.max = <<>>
  ELSE /\ cgroup.max # <<>> => cgroup.max = argv.maxRam
       /\ cgroup.low # <<>> => cgroup.low = ExpectedMemoryLow[argv.maxRam]

(***************************************************************************)
(* C9.  Once computed, the clone flags are SIGCHLD, the mount bit iff      *)
(* --rootfs, the PID bit iff --pid, the UTS bit iff --hostname or          *)
(* --domain, the IPC bit iff --ipc, the network bit iff --ip, and nothing  *)
(* else.                                                                   *)
(***************************************************************************)
C9_FlagDerivation ==
  apc \notin {"parse", "flags"} /\ ~argv.parseError /\ ~argv.help /\ cmd # ""
  =>
    /\ "SIGCHLD" \in flags
    /\ "CLONE_NEWNS" \in flags <=> rootfs # ""
    /\ "CLONE_NEWPID" \in flags <=> enablePid
    /\ "CLONE_NEWUTS" \in flags <=> (hostname # "" \/ domain # "")
    /\ "CLONE_NEWIPC" \in flags <=> enableIpc
    /\ "CLONE_NEWNET" \in flags <=> ip # ""
    /\ flags \subseteq { "SIGCHLD", "CLONE_NEWNS", "CLONE_NEWPID",
                         "CLONE_NEWUTS", "CLONE_NEWIPC", "CLONE_NEWNET" }

\* Flags computed for a command line with --domain and no --hostname, and
\* all of the other options.
C9_Witness ==
  /\ apc = "pipe"
  /\ hostname = "" /\ domain # ""
  /\ rootfs # "" /\ enablePid /\ enableIpc /\ ip # ""
  /\ flags = { "SIGCHLD", "CLONE_NEWNS", "CLONE_NEWPID", "CLONE_NEWUTS",
               "CLONE_NEWIPC", "CLONE_NEWNET" }

(***************************************************************************)
(* C10.  The handshake does not deadlock: a container in waitForAgent      *)
(* leaves it, also when the agent ended during its plumbing without        *)
(* writing a byte.                                                         *)
(***************************************************************************)
C10_HandshakeReadReturns ==
  (cpc \in {"closeWrite", "read"}) ~> (cpc \notin {"closeWrite", "read"})

\* The agent ended in prepareNetwork with nothing written, and the
\* container left its read and gave up.
C10_Witness ==
  /\ agentStatus.msg = "adding veth pair failed"
  /\ pipe.buf = <<>>
  /\ cpc = "Aborted"
  /\ childStatus.msg = "[Container] Preparation failed"

(***************************************************************************)
(* C11.  A read of the handshake that a signal interrupts is started again *)
(* and the container neither aborts nor moves on; when the read then       *)
(* returns the byte the agent wrote, the container goes on for a success   *)
(* byte and aborts with "Preparation failed" for a failure byte, however   *)
(* often it was interrupted; and an interrupted read does come to an end.  *)
(***************************************************************************)
C11_EintrSafety ==
  /\ [][(cpc = "read" /\ eintr' > eintr) =>
          (cpc' = "read" /\ childStatus' = Running /\ pipe' = pipe)]_vars
  /\ [][(ReadReturns /\ pipe.buf # <<>>) =>
          IF Head(pipe.buf)
          THEN cpc' = "closeRead" /\ childStatus' = Running
          ELSE /\ cpc' = "Aborted"
               /\ childStatus' =
                    Ended(EXIT_FAILURE, "[Container] Preparation failed")]_vars
  /\ (cpc = "read" /\ eintr > 0) ~> (cpc # "read")

\* The read was interrupted as often as the model allows while the pipe
\* was empty, the container is still reading, and the agent's failure
\* byte has arrived since.
C11_Witness ==
  /\ cpc = "read"
  /\ eintr = MaxEintr
  /\ childStatus = Running
  /\ pipe.buf = <<FALSE>>

(***************************************************************************)
(* C12.  The host's hostname and NIS domain are the same in every state of *)
(* every launch; the container's names differ from the host's only in a    *)
(* container cloned with CLONE_NEWUTS; and a container that has come to    *)
(* its execv has the hostname given by --hostname and the domain given by  *)
(* --domain, whichever were given.                                         *)
(***************************************************************************)
C12_IdentityIsolation ==
  /\ uts.host = [hostname |-> HostHostname, domain |-> HostDomain]
  /\ uts.container # uts.host => "CLONE_NEWUTS" \in flags
  /\ cpc \in {"execv", "Executing", "exited"} \/ execvCall # "none" =>
       /\ hostname # "" => uts.container.hostname = hostname
       /\ domain # "" => uts.container.domain = domain

\* The user command runs under both names, the host's names untouched.
C12_Witness ==
  /\ cpc = "Executing"
  /\ hostname # "" /\ domain # ""
  /\ uts.container = [hostname |-> hostname, domain |-> domain]
  /\ uts.host = [hostname |-> HostHostname, domain |-> HostDomain]
  /\ uts.host # uts.container

\* The command line fails a precondition: the parser rejects it, or it
\* names no command (and does not ask for help).
PreconditionError == argv.parseError \/ (~argv.help /\ cmd = "")

(***************************************************************************)
(* C13.  On a command line the parser rejects or that names no command,    *)
(* no pipe and no container are created, no cgroup and no network action   *)
(* happens, and the process ends with a status other than 0.               *)
(***************************************************************************)
C13_PreconditionErrorExitsNonZero ==
  PreconditionError =>
    /\ cpc = "none"
    /\ pipe = [buf |-> <<>>, w |-> {}, r |-> {}]
    /\ hostNet = <<>>
    /\ cgroup.faults = {} /\ cgroup.dir # "created" /\ ~cgroup.procs
    /\ apc \in {"parse", "done"}
    /\ apc = "done" => agentStatus.code # "0"

\* The phase of the container at each of its positions: 0 not created,
\* 1 AwaitingAgent (waitForAgent), 2 PlumbingSelf (setupNetwork),
\* 3 Pivoting (setupFilesystem), 4 Identifying (setHostAndDomainName),
\* 5 runContainer up to its execv, 6 Executing, 7 Aborted.
Phase ==
  [ pc \in { "none", "closeWrite", "read", "closeRead", "setupNetwork",
             "setupFilesystem", "sethostname", "setdomainname", "runContainer",
             "getnames", "execv", "Executing", "exited", "Aborted" } |->
      CASE pc = "none" -> 0
        [] pc \in {"closeWrite", "read", "closeRead"} -> 1
        [] pc = "setupNetwork" -> 2
        [] pc = "setupFilesystem" -> 3
        [] pc \in {"sethostname", "setdomainname"} -> 4
        [] pc \in {"runContainer", "getnames", "execv"} -> 5
        [] pc \in {"Executing", "exited"} -> 6
        [] pc = "Aborted" -> 7 ]

\* The option that asks for each phase; waitForAgent and runContainer are
\* always called.
Requested(ph) ==
  CASE ph = 2 -> ip # ""
    [] ph = 3 -> rootfs # ""
    [] ph = 4 -> hostname # "" \/ domain # ""
    [] OTHER -> TRUE

(***************************************************************************)
(* C14.  The container changes phase only forward, and into the next phase *)
(* that was asked for: it enters PlumbingSelf only with --ip, Pivoting     *)
(* only with --rootfs, Identifying only with --hostname or --domain, and   *)
(* skips a phase only when it was not asked for; or it aborts.  Executing  *)
(* and Aborted are final and exclude each other, an aborted container has  *)
(* a non-zero exit status, and every container comes to one of the two.    *)
(***************************************************************************)
C14_ChildPhaseOrder ==
  /\ [][(Phase[cpc'] # Phase[cpc] /\ cpc' # "Aborted") =>
          /\ Phase[cpc'] > Phase[cpc]
          /\ Requested(Phase[cpc'])
          /\ \A ph \in (Phase[cpc] + 1)..(Phase[cpc'] - 1) : ~Requested(ph)]_vars
  /\ [][(Phase[cpc] \in {6, 7}) => Phase[cpc'] = Phase[cpc]]_vars
  /\ [](cpc = "Aborted" => childStatus.code \notin {"none", "0"})
  /\ (cpc # "none") ~> (Phase[cpc] \in {6, 7})

\* A container that went through every phase and runs the user command.
\* (Two of --ip, --rootfs and a name are given; the third phase is skipped.)
C14_Witness ==
  /\ cpc = "Executing"
  /\ ip # "" /\ rootfs # "" /\ hostname = "" /\ domain = ""
  /\ Len(childNet) = Len(ChildNetCmds)
  /\ Len(mounts.ops) = Len(PivotOps)

\* What the agent gives errExit when a call of its handshake fails.
AgentHandshakeErrors ==
  { "[Agent] close(readfd)", "[Agent] write(writefd)", "[Agent] close(writefd)" }

\* The agent called waitpid: it returned, or it failed.
WaitpidCalled == reaped \/ agentStatus.msg = "[Agent] waitpid failed"

\* The agent called rmdir: it succeeded and main returned, or it failed.
RmdirCalled ==
  agentStatus = Ended(MainReturn, "") \/ agentStatus.msg = "rmdir(cgroupPath)"

(***************************************************************************)
(* C15.  An agent that created the container and whose host-side setup     *)
(* failed afterwards (a command of prepareNetwork that has to succeed, or  *)
(* a call of setupCgroup) does not end without having called waitpid, and, *)
(* once waitpid has returned, rmdir; the calls of its own handshake        *)
(* succeeding.                                                             *)
(***************************************************************************)
C15_AlwaysReaps ==
  ( /\ apc = "done"
    /\ Launched
    /\ HostNetFailed \/ cgroup.faults # {}
    /\ agentStatus.msg \notin AgentHandshakeErrors
    /\ agentStatus.code # "SIGPIPE" )
  => /\ WaitpidCalled
     /\ reaped => RmdirCalled

(***************************************************************************)
(* C16.  The agent calls rmdir on the cgroup directory only when its own   *)
(* mkdir of that directory succeeded: after a failed mkdir (the directory  *)
(* was there already, or could not be made) no rmdir is called, so a       *)
(* directory the launch did not create is never removed.                   *)
(***************************************************************************)
C16_RmdirOnlyAfterMkdir ==
  "mkdir" \in cgroup.faults => ~(Launched /\ RmdirCalled)

\* Creation of the bridge and the address of the bridge.
ToleratedCommands ==
  { "ip link add name br0 type bridge",
    "ip addr add 10.0.0.1/16 brd + dev br0" }

\* A command other than those two failed.
FatalFailure ==
  \E i \in 1..Len(hostNet) :
    hostNet[i] = "fail" /\ HostNetCmds[i] \notin ToleratedCommands

(***************************************************************************)
(* C17.  While only the creation of the bridge or the address of the       *)
(* bridge has failed, the agent goes on with the next command.  When any   *)
(* other command of the host-side plumbing has failed, the agent has ended *)
(* with EXIT_FAILURE and the message of that command, that command was the *)
(* last one run, setupCgroup has not begun, and no byte is in the pipe.    *)
(***************************************************************************)
C17_NetworkFailureTolerance ==
  /\ (~FatalFailure /\ hostNet # <<>> /\ Len(hostNet) < Len(HostNetCmds)) =>
       /\ apc = "prepareNetwork"
       /\ astep = Len(hostNet) + 1
       /\ agentStatus = Running
  /\ FatalFailure =>
       /\ apc = "done"
       /\ hostNet[Len(hostNet)] = "fail"
       /\ \A i \in 1..(Len(hostNet) - 1) :
            hostNet[i] = "fail" => HostNetCmds[i] \in ToleratedCommands
       /\ agentStatus = Ended(EXIT_FAILURE, HostNetErrors[Len(hostNet)])
       /\ agentStatus.msg # ""
       /\ cgroup.dir # "created" /\ cgroup.faults = {} /\ ~cgroup.procs
       /\ pipe.buf = <<>>
       /\ ~ChildPastHandshake

\* Both tolerated commands failed, the agent went on, and ended when
\* bringing the veth up failed.
C17_Witness ==
  /\ hostNet = <<"fail", "ok", "fail", "ok", "fail">>
  /\ apc = "done"
  /\ agentStatus.msg = "setting veth up failed"
  /\ cgroup.faults = {}
  /\ cpc = "Aborted"

\* The order of the pivot: root tree slave, bind of rootfs onto itself,
\* chdir into rootfs, move onto /, chroot, chdir to /, new root shared,
\* proc.
PivotOrder ==
  << "mount(/, MS_SLAVE | MS_REC)",
     "mount(rootfs, rootfs, MS_BIND | MS_REC)",
     "chdir(rootfs)",
     "mount(rootfs, /, MS_MOVE)",
     "chroot(.)",
     "chdir(/)",
     "mount(/, MS_SHARED | MS_REC)",
     "mount(proc, /proc, MS_NOSUID | MS_NOEXEC | MS_NODEV)" >>

IsPivotOp(op) == \E i \in 1..Len(PivotOrder) : PivotOrder[i] = op

\* The operations of the pivot the container has performed, in order.
PivotDone == SelectSeq(mounts.ops, IsPivotOp)

IsPrefix(s, t) == Len(s) <= Len(t) /\ s = SubSeq(t, 1, Len(s))

\* The container set a name or called execv.
IdentityOrExecBegun ==
  \/ Phase[cpc] \in {4, 5, 6}
  \/ uts.container # [hostname |-> HostHostname, domain |-> HostDomain]
  \/ execvCall # "none"

\* The container ended in setupFilesystem.
PivotAborted ==
  /\ cpc = "Aborted"
  /\ \E i \in 1..Len(PivotOps) : childStatus.msg = PivotOps[i]

(***************************************************************************)
(* C18.  The operations of the pivot are performed only with --rootfs and  *)
(* only by a container past the handshake; what has been performed is      *)
(* always an initial part of the order slave, bind, chdir, move, chroot,   *)
(* chdir, shared, proc, so that each is done once and in order; with       *)
(* --rootfs, no name is set and execv is not called before all eight are   *)
(* done; and a container that ended on a failed operation has performed    *)
(* none of the later ones, set no name and not called execv.               *)
(***************************************************************************)
C18_PivotOrder ==
  /\ IsPrefix(PivotDone, PivotOrder)
  /\ mounts.ops # <<>> => rootfs # "" /\ ChildPastHandshake
  /\ cpc = "setupFilesystem" => rootfs # "" /\ ~IdentityOrExecBegun
  /\ (rootfs # "" /\ IdentityOrExecBegun) => PivotDone = PivotOrder
  /\ PivotAborted =>
       /\ Len(mounts.ops) < Len(PivotOps)
       /\ childStatus.msg = PivotOps[Len(mounts.ops) + 1]
       /\ PivotDone # PivotOrder
       /\ uts.container = [hostname |-> HostHostname, domain |-> HostDomain]
       /\ execvCall = "none"

\* A container that made the whole pivot, then set its hostname, and runs
\* the user command.
C18_Witness ==
  /\ cpc = "Executing"
  /\ rootfs # "" /\ hostname # ""
  /\ PivotDone = PivotOrder
  /\ uts.container.hostname = hostname

\* Where the agent is between prepareNetwork and the end of main.
AfterPlumbingPcs ==
  { "mkdir", "memoryLow", "memoryMax", "attach", "closeRead", "write",
    "closeWrite", "waitpid", "rmdir" }

(***************************************************************************)
(* C19.  The decisions taken on --ip agree, and so do those on --rootfs:   *)
(* a command of prepareNetwork is run only for a container cloned with     *)
(* CLONE_NEWNET, and so is a command of setupNetwork; an operation of      *)
(* setupFilesystem is performed only in a container cloned with            *)
(* CLONE_NEWNS.  Conversely, with CLONE_NEWNET an agent past its plumbing  *)
(* has run all of prepareNetwork and a container past its own has run all  *)
(* of setupNetwork, and with CLONE_NEWNS a container past the pivot has    *)
(* performed all of it.                                                    *)
(***************************************************************************)
C19_GatingAgrees ==
  /\ (hostNet # <<>> \/ apc = "prepareNetwork") =>
       "CLONE_NEWNET" \in flags /\ Launched
  /\ (childNet # <<>> \/ cpc = "setupNetwork") => "CLONE_NEWNET" \in flags
  /\ (mounts.ops # <<>> \/ cpc = "setupFilesystem") =>
       "CLONE_NEWNS" \in flags /\ mounts.ns >= 1
  /\ ("CLONE_NEWNET" \in flags /\ apc \in AfterPlumbingPcs) =>
       Len(hostNet) = Len(HostNetCmds)
  /\ ("CLONE_NEWNET" \in flags /\ Phase[cpc] \in 3..6) => childNet = ChildNetCmds
  /\ ("CLONE_NEWNS" \in flags /\ Phase[cpc] \in 4..6) => mounts.ops = PivotOps

\* A launch with --ip and --rootfs whose container runs the user command:
\* both plumbings and the pivot were made, under both flags.
C19_Witness ==
  /\ cpc = "Executing"
  /\ {"CLONE_NEWNET", "CLONE_NEWNS"} \subseteq flags
  /\ Len(hostNet) = Len(HostNetCmds)
  /\ childNet = ChildNetCmds
  /\ mounts.ops = PivotOps

=============================================================================
